---- MODULE Spec2Model ----
(***************************************************************************)
(* The overscroll-preview gesture controller of the RSS reader             *)
(* (src/src/composables/useOverscrollPreview.ts) together with the host    *)
(* wiring that feeds it (ArticleViewer.vue, App.vue).                      *)
(*                                                                         *)
(* Numbers are fixed point: an offset v stands for v / One pixels.  Touch  *)
(* coordinates, scroll positions and indices are whole numbers.            *)
(***************************************************************************)
EXTENDS Integers, Sequences, FiniteSets, TLC

VARIABLES
    threshold,          \* option threshold, in fixed point
    articlesLen,        \* articles.value.length
    currentIndex,       \* currentIndex.value
    state,              \* state.value
    direction,          \* direction.value ("none" is null)
    overscrollOffset,   \* overscrollOffset.value, in fixed point
    isAnimating,        \* isAnimating.value
    isCommitting,       \* isCommitting.value
    startY,
    overscrollStartY,
    wasAtTop,
    wasAtBottom,
    directionLocked,
    timers,             \* pending setTimeout callbacks, in scheduling order
    navigated,          \* a timer of the current touch session has invoked onNavigate
    seenDirs,           \* directions taken since the last onTouchStart
    demoted,            \* the current touch session has had an overscroll demoted
    lastOp              \* the handler that ran last and what it did

ctl == <<state, direction, overscrollOffset, isAnimating, isCommitting, directionLocked>>
touch == <<startY, overscrollStartY, wasAtTop, wasAtBottom>>
host == <<threshold, articlesLen, currentIndex>>
hist == <<navigated, seenDirs, demoted>>
vars == <<host, ctl, touch, timers, hist, lastOp>>

----------------------------------------------------------------------------
(* Bounds of the model *)

MaxArticles == 2
MaxTimers == 2
One == 10000
MaxRaw == 5700      \* the longest drag, in px, the damping is computed for
SeriesMax == 900    \* the longest drag whose exponential is one series

(* Options' defaults and the delays of the two settle timers *)

thresholdDefault == 120
maxOverscroll == 250
commitDelay == 300
springDelay == 400

(* Vertical coordinates a touch point reports *)
TouchYs == {100, 110, 199, 208, 209}

(* The scroll container: absent, or an element with its scroll metrics *)
NoElement == [present |-> FALSE]

Element(top, client, total) ==
    [present |-> TRUE, scrollTop |-> top, clientHeight |-> client, scrollHeight |-> total]

Containers ==
    {NoElement} \cup {Element(t, 600, 1500) : t \in {1, 2, 899}}

----------------------------------------------------------------------------
(* Pure helpers *)

\* One * e^(r / tau), by the power series, each term truncated
RECURSIVE ExpSeries(_, _, _, _)
ExpSeries(term, n, r, tau) ==
    IF term = 0 THEN 0
    ELSE term + ExpSeries((term * r) \div (tau * n), n + 1, r, tau)

\* maxOverscroll * 0.6
DampingLength == (maxOverscroll * 6) \div 10

\* One * Math.exp(-raw / (maxOverscroll * 0.6)), never rounded down to 0: the
\* double is positive.  Beyond SeriesMax the exponent is split, to keep the
\* series within the integers' range.
RECURSIVE ExpNeg(_)
ExpNeg(raw) ==
    IF raw <= SeriesMax
    THEN (One * One) \div ExpSeries(One, 1, raw, DampingLength)
    ELSE LET split == (ExpNeg(SeriesMax) * ExpNeg(raw - SeriesMax)) \div One
         IN  IF split < 1 THEN 1 ELSE split

\* 1 - e in double arithmetic: once e = exp(-raw / DampingLength) is at most
\* 2^-54, half the gap between 1 and the double below it, the difference
\* rounds to 1 (raw / DampingLength >= 54 * ln 2, with ln 2 = 0.6931)
OneMinusExp(raw) ==
    IF raw * 10000 >= 54 * 6931 * DampingLength THEN One
    ELSE One - ExpNeg(raw)

\* The damping with the two terms of the difference exchanged
dampenSignSlip(raw) ==
    IF raw <= 0 THEN 0
    ELSE maxOverscroll * (ExpNeg(raw) - One)

\* A damping that grows with the distance and leaves out the exponential
dampenLinear(raw) ==
    IF raw <= 0 THEN 0
    ELSE maxOverscroll * ((One * raw) \div DampingLength)

dampen(raw) ==
    IF raw <= 0 THEN 0
    ELSE maxOverscroll * OneMinusExp(raw)

\* isAtTop that reports "not at the edge" when the container is missing
isAtTopClosed(el) ==
    IF ~el.present THEN FALSE
    ELSE el.scrollTop <= 1

isAtTop(el) ==
    IF ~el.present THEN TRUE
    ELSE el.scrollTop <= 1

isAtBottom(el) ==
    IF ~el.present THEN TRUE
    ELSE el.scrollTop + el.clientHeight >= el.scrollHeight - 1

\* hasPrev with the comparison off by one
hasPrevFromZero == currentIndex >= 0

hasPrev == currentIndex > 0

\* hasNext with the comparison off by one
hasNextPastLast == currentIndex < articlesLen

hasNext == currentIndex < articlesLen - 1

Abs(x) == IF x < 0 THEN -x ELSE x

\* The threshold option: the default, or one a caller sets to a damped value
ThresholdOptions == {thresholdDefault * One, dampen(99)}

\* resetState that forgets the offset
resetStateKeepsOffset ==
    /\ state' = "idle"
    /\ direction' = "none"
    /\ overscrollOffset' = overscrollOffset
    /\ isAnimating' = FALSE
    /\ isCommitting' = FALSE
    /\ directionLocked' = FALSE

\* resetState that forgets the direction
resetStateKeepsDirection ==
    /\ state' = "idle"
    /\ direction' = direction
    /\ overscrollOffset' = 0
    /\ isAnimating' = FALSE
    /\ isCommitting' = FALSE
    /\ directionLocked' = FALSE

\* resetState that forgets the commit flag
resetStateKeepsCommitting ==
    /\ state' = "idle"
    /\ direction' = "none"
    /\ overscrollOffset' = 0
    /\ isAnimating' = FALSE
    /\ isCommitting' = isCommitting
    /\ directionLocked' = FALSE

\* resetState that forgets the animation flag
resetStateKeepsAnimating ==
    /\ state' = "idle"
    /\ direction' = "none"
    /\ overscrollOffset' = 0
    /\ isAnimating' = isAnimating
    /\ isCommitting' = FALSE
    /\ directionLocked' = FALSE

resetState ==
    /\ state' = "idle"
    /\ direction' = "none"
    /\ overscrollOffset' = 0
    /\ isAnimating' = FALSE
    /\ isCommitting' = FALSE
    /\ directionLocked' = FALSE

----------------------------------------------------------------------------
\* The state after construction; thr is the threshold option
InitWith(thr) ==
    /\ threshold = thr
    /\ articlesLen \in 0..MaxArticles
    /\ currentIndex \in 0..(IF articlesLen = 0 THEN 0 ELSE articlesLen - 1)
    /\ state = "idle"
    /\ direction = "none"
    /\ overscrollOffset = 0
    /\ isAnimating = FALSE
    /\ isCommitting = FALSE
    /\ startY = 0
    /\ overscrollStartY = 0
    /\ wasAtTop = FALSE
    /\ wasAtBottom = FALSE
    /\ directionLocked = FALSE
    /\ timers = <<>>
    /\ navigated = FALSE
    /\ seenDirs = {}
    /\ demoted = FALSE
    /\ lastOp = [op |-> "init", navs |-> <<>>]

\* The viewer passes no threshold: the default applies
Init == InitWith(thresholdDefault * One)

\* A caller that sets the option
InitOptions == \E thr \in ThresholdOptions : InitWith(thr)

----------------------------------------------------------------------------
(* Touch handlers *)

\* A handler that returned at its disabled check.  Every handler records in
\* lastOp.dis the value of disabled.value it ran under.
Ignore(name) ==
    /\ lastOp' = [op |-> name, dis |-> TRUE, prevented |-> FALSE,
                  path |-> "ignored", navs |-> <<>>]
    /\ UNCHANGED <<host, ctl, touch, timers, hist>>

\* The cancel test looking at the commit flag only
MustCancelCommitOnly == isCommitting

\* The cancel test that never cancels
MustCancelNever == FALSE

\* onTouchStart's test for an animation in flight
MustCancel == isAnimating \/ isCommitting

TouchStartBody(y, el, dis) ==
    /\ IF MustCancel
       THEN resetState
       ELSE /\ state' = "idle"
            /\ direction' = "none"
            /\ directionLocked' = FALSE
            /\ UNCHANGED <<overscrollOffset, isAnimating, isCommitting>>
    /\ startY' = y
    /\ wasAtTop' = isAtTop(el)
    /\ wasAtBottom' = isAtBottom(el)
    /\ timers' = [i \in 1..Len(timers) |-> [timers[i] EXCEPT !.stale = TRUE]]
    /\ navigated' = FALSE
    /\ seenDirs' = {}
    /\ demoted' = FALSE
    /\ lastOp' = [op |-> "touchStart", dis |-> dis, prevented |-> FALSE,
                  path |-> IF MustCancel THEN "cancel" ELSE "fresh",
                  navs |-> <<>>]
    /\ UNCHANGED <<host, overscrollStartY>>

\* dis is disabled.value when the handler runs
OnTouchStart(y, el, dis) ==
    IF dis THEN Ignore("touchStart") ELSE TouchStartBody(y, el, dis)

\* An overscrolling branch that forgets preventDefault: only entering calls it
MoveOpPreventOnEnterOnly(path, prevented, dis) ==
    [op |-> "touchMove", dis |-> dis, prevented |-> (path = "enter"),
     path |-> path, navs |-> <<>>]

MoveOp(path, prevented, dis) ==
    [op |-> "touchMove", dis |-> dis, prevented |-> prevented,
     path |-> path, navs |-> <<>>]

\* The four assignments and preventDefault of entering overscrolling
EnterOverscrolling(dir, y, dis) ==
    /\ state' = "overscrolling"
    /\ direction' = dir
    /\ overscrollStartY' = y
    /\ directionLocked' = TRUE
    /\ seenDirs' = seenDirs \cup {dir}
    /\ UNCHANGED demoted
    /\ lastOp' = MoveOp("enter", TRUE, dis)
    /\ UNCHANGED <<overscrollOffset, isAnimating, isCommitting>>

MoveNothing(path, dis) ==
    /\ lastOp' = MoveOp(path, FALSE, dis)
    /\ UNCHANGED <<ctl, overscrollStartY, seenDirs, demoted>>

\* The scrolling branch reading the snapshot taken at touch-down
atTopSnapshot(el) == wasAtTop

\* const atTop = isAtTop(): the boundary as it is during the move
atTop(el) == isAtTop(el)

\* const atBottom = isAtBottom()
atBottom(el) == isAtBottom(el)

\* A reversal test that lets a drag back to the reference point pass
ReversedStrict(rawDistance) == rawDistance < 0

\* The overscrolling branch's test for a drag back into the content
Reversed(rawDistance) == rawDistance <= 0

\* A dead zone one pixel short
InDeadZoneShort(totalDeltaY) == Abs(totalDeltaY) < 9

\* The idle state's test for a movement too small to classify
InDeadZone(totalDeltaY) == Abs(totalDeltaY) < 10

TouchMoveBody(y, el, dis) ==
    LET totalDeltaY == y - startY
        rawDistance == IF direction = "prev" THEN y - overscrollStartY
                                             ELSE overscrollStartY - y
    IN  /\ CASE state = "idle" ->
                  IF InDeadZone(totalDeltaY) THEN MoveNothing("deadzone", dis)
                  ELSE IF totalDeltaY > 0 /\ wasAtTop /\ hasPrev
                       THEN EnterOverscrolling("prev", y, dis)
                  ELSE IF totalDeltaY < 0 /\ wasAtBottom /\ hasNext
                       THEN EnterOverscrolling("next", y, dis)
                  ELSE /\ state' = "scrolling"
                       /\ lastOp' = MoveOp("toScrolling", FALSE, dis)
                       /\ UNCHANGED <<direction, overscrollOffset, isAnimating,
                                      isCommitting, directionLocked,
                                      overscrollStartY, seenDirs, demoted>>
             [] state = "scrolling" ->
                  IF totalDeltaY > 0 /\ atTop(el) /\ hasPrev /\ ~directionLocked
                       THEN EnterOverscrolling("prev", y, dis)
                  ELSE IF totalDeltaY < 0 /\ atBottom(el) /\ hasNext /\ ~directionLocked
                       THEN EnterOverscrolling("next", y, dis)
                  ELSE MoveNothing("scroll", dis)
             [] state = "overscrolling" ->
                  IF Reversed(rawDistance)
                  THEN /\ overscrollOffset' = 0
                       /\ state' = "scrolling"
                       /\ direction' = "none"
                       /\ demoted' = TRUE
                       /\ lastOp' = MoveOp("demote", TRUE, dis)
                       /\ UNCHANGED <<isAnimating, isCommitting, directionLocked,
                                      overscrollStartY, seenDirs>>
                  ELSE /\ overscrollOffset' = dampen(rawDistance)
                       /\ lastOp' = MoveOp("drag", TRUE, dis)
                       /\ UNCHANGED <<state, direction, isAnimating, isCommitting,
                                      directionLocked, overscrollStartY, seenDirs,
                                      demoted>>
        /\ UNCHANGED <<host, startY, wasAtTop, wasAtBottom, timers, navigated>>

\* onTouchMove without its disabled check
OnTouchMoveUnguarded(y, el, dis) == TouchMoveBody(y, el, dis)

OnTouchMove(y, el, dis) ==
    IF dis THEN Ignore("touchMove") ELSE TouchMoveBody(y, el, dis)

\* The release test with a strict comparison
CommitPathStrict(offset, thr) == offset > thr

\* The release test of the commit branch
CommitPath(offset, thr) == offset >= thr

\* The captured index taken as the next one whatever the direction
NavigateIndexNextOnly(dir, index) == index + 1

\* The captured index with the two directions exchanged
NavigateIndexSwapped(dir, index) ==
    IF dir = "prev" THEN index + 1 ELSE index - 1

\* The index the commit branch captures for its timer
NavigateIndex(dir, index) ==
    IF dir = "prev" THEN index - 1 ELSE index + 1

\* A commit branch that navigates at once instead of in its timer
CommitNowSync(navigateIndex) == <<navigateIndex>>

\* onNavigate calls made inside onTouchEnd itself: the commit branch only
\* hands the call to its timer
CommitNow(navigateIndex) == <<>>

\* offset is overscrollOffset as the release found it
EndOp(path, navs, dis) ==
    [op |-> "touchEnd", dis |-> dis, prevented |-> FALSE,
     path |-> path, navs |-> navs, offset |-> overscrollOffset]

\* A release test that takes every state but idle for a gesture to settle
InGestureUnlessIdle == state # "idle"

\* onTouchEnd's test for an overscroll to settle
InGesture == state = "overscrolling" /\ direction # "none"

\* A commit that snaps only as far as maxOverscroll
commitOffsetAtMax == maxOverscroll

\* const commitOffset = maxOverscroll + 50
commitOffset == maxOverscroll + 50

TouchEndBody(dis) ==
    /\ IF InGesture
       THEN /\ Len(timers) < MaxTimers
            /\ IF CommitPath(overscrollOffset, threshold)
               THEN /\ isCommitting' = TRUE
                    /\ isAnimating' = TRUE
                    /\ overscrollOffset' = commitOffset * One
                    /\ timers' = Append(timers,
                          [kind |-> "commit", delay |-> commitDelay,
                           navigateIndex |-> NavigateIndex(direction, currentIndex),
                           stale |-> FALSE])
                    /\ lastOp' = EndOp("commit",
                          CommitNow(NavigateIndex(direction, currentIndex)), dis)
                    /\ UNCHANGED <<state, direction, directionLocked>>
               ELSE /\ isAnimating' = TRUE
                    /\ overscrollOffset' = 0
                    /\ timers' = Append(timers,
                          [kind |-> "spring", delay |-> springDelay,
                           stale |-> FALSE])
                    /\ lastOp' = EndOp("spring", <<>>, dis)
                    /\ UNCHANGED <<state, direction, isCommitting, directionLocked>>
       ELSE /\ resetState
            /\ lastOp' = EndOp("reset", <<>>, dis)
            /\ UNCHANGED timers
    /\ demoted' = FALSE    \* the release ends the touch session
    /\ UNCHANGED <<host, touch, navigated, seenDirs>>

OnTouchEnd(dis) ==
    IF dis THEN Ignore("touchEnd") ELSE TouchEndBody(dis)

----------------------------------------------------------------------------
(* Computed outputs *)

\* The ready test with a strict comparison
overscrollReadyStrict == overscrollOffset > threshold

overscrollReady == overscrollOffset >= threshold

Min(a, b) == IF a < b THEN a ELSE b

Max(a, b) == IF a > b THEN a ELSE b

\* The transition a panel gets while a settle animation runs
PanelTransition ==
    IF isAnimating /\ ~isCommitting THEN "0.4s spring"
    ELSE IF isCommitting THEN "0.3s commit"
    ELSE "unset"

\* A top panel shown for any direction
TopActiveAnyDirection == direction # "none"

\* topPreviewStyle's test: the panel is parked when this is false
TopActive == direction = "prev"

\* The top panel's percentage left unclamped
ClampTopNone(translateY) == translateY

\* Math.min(0, translateY)
ClampTop(translateY) == Min(0, translateY)

\* Math.max(0, translateY)
ClampBottom(translateY) == Max(0, translateY)

\* opacity in units of 1 / One, translateY in units of 1 / One percent
topPreviewStyle ==
    IF ~TopActive
    THEN [opacity |-> 0, translateY |-> -100 * One, transition |-> "unset"]
    ELSE [opacity |-> Min(One, overscrollOffset \div 60),
          translateY |-> ClampTop(-100 * One + (overscrollOffset * 100) \div maxOverscroll),
          transition |-> PanelTransition]

bottomPreviewStyle ==
    IF direction # "next"
    THEN [opacity |-> 0, translateY |-> 100 * One, transition |-> "unset"]
    ELSE [opacity |-> Min(One, overscrollOffset \div 60),
          translateY |-> ClampBottom(100 * One - (overscrollOffset * 100) \div maxOverscroll),
          transition |-> PanelTransition]

----------------------------------------------------------------------------
(* Timer callbacks and the host *)

\* The onNavigate calls a timer callback makes
TimerNavs(t) ==
    IF t.kind = "commit" THEN <<t.navigateIndex>> ELSE <<>>

\* setTimeout order: a timer never overtakes an earlier one that is due first
CanFire(i) ==
    /\ i \in 1..Len(timers)
    /\ \A j \in 1..(i - 1) : timers[j].delay > timers[i].delay

RemoveAt(s, i) == SubSeq(s, 1, i - 1) \o SubSeq(s, i + 1, Len(s))

\* App.handleNavigate: the index the host shows after a navigate event
handleNavigate(index) == index

FireTimer(i) ==
    /\ CanFire(i)
    /\ LET t == timers[i]
           navs == TimerNavs(t)
       IN  /\ timers' = RemoveAt(timers, i)
           /\ currentIndex' = IF navs = <<>> THEN currentIndex
                              ELSE handleNavigate(navs[Len(navs)])
           /\ resetState    \* the callback's own; the watcher repeats it
           /\ navigated' = (navigated \/ (navs # <<>> /\ ~t.stale))
           /\ lastOp' = [op |-> "timer", timer |-> t, navs |-> navs,
                         again |-> navigated]
    /\ UNCHANGED <<threshold, articlesLen, touch, seenDirs, demoted>>

\* A watcher that leaves the controller as it is
watchCurrentIndexIdle == UNCHANGED ctl

\* watch(() => currentIndex.value, ...): runs once the index has changed
watchCurrentIndex == resetState

\* goPrev / goNext of the viewer, then the watcher on currentIndex; was is
\* the controller's state when the index changed
goPrev ==
    /\ hasPrev
    /\ currentIndex' = handleNavigate(currentIndex - 1)
    /\ watchCurrentIndex
    /\ lastOp' = [op |-> "indexChange", was |-> state, navs |-> <<>>]
    /\ UNCHANGED <<threshold, articlesLen, touch, timers, hist>>

goNext ==
    /\ hasNext
    /\ currentIndex' = handleNavigate(currentIndex + 1)
    /\ watchCurrentIndex
    /\ lastOp' = [op |-> "indexChange", was |-> state, navs |-> <<>>]
    /\ UNCHANGED <<threshold, articlesLen, touch, timers, hist>>

\* The handlers called while disabled.value is true: they return before
\* reading the event, so one event stands for all
WhileDisabled ==
    \/ \E y \in TouchYs : OnTouchStart(y, NoElement, TRUE)
    \/ \E y \in TouchYs : OnTouchMove(y, NoElement, TRUE)
    \/ OnTouchEnd(TRUE)

----------------------------------------------------------------------------
Next ==
    \/ \E y \in TouchYs, el \in Containers : OnTouchStart(y, el, FALSE)
    \/ \E y \in TouchYs, el \in Containers : OnTouchMove(y, el, FALSE)
    \/ OnTouchEnd(FALSE)
    \/ \E i \in 1..MaxTimers : FireTimer(i)
    \/ goPrev
    \/ goNext

Spec == Init /\ [][Next]_vars

\* The controller under either threshold option
SpecOptions == InitOptions /\ [][Next]_vars

\* Spec with the disabled calls, which change nothing but lastOp
NextAll == Next \/ WhileDisabled

SpecAll == Init /\ [][NextAll]_vars

\* Every pending timer is due after a finite delay: the oldest one gets to run
FairSpec == Spec /\ WF_vars(FireTimer(1))

----------------------------------------------------------------------------
(* The damping function on its own, applied by the drag that calls it *)

\* Drag distances, in px
RawDistances == 0..MaxRaw

\* An upward overscroll just entered at height raw of a viewport that tall:
\* the state after onTouchStart(raw + 10) and onTouchMove(raw) on the first of
\* two articles, with a container that fits
InitDrag ==
    /\ threshold = thresholdDefault * One
    /\ articlesLen = 2
    /\ currentIndex = 0
    /\ state = "overscrolling"
    /\ direction = "next"
    /\ overscrollOffset = 0
    /\ isAnimating = FALSE
    /\ isCommitting = FALSE
    /\ overscrollStartY \in RawDistances
    /\ startY = overscrollStartY + 10
    /\ wasAtTop = TRUE
    /\ wasAtBottom = TRUE
    /\ directionLocked = TRUE
    /\ timers = <<>>
    /\ navigated = FALSE
    /\ seenDirs = {"next"}
    /\ demoted = FALSE
    /\ lastOp = MoveOp("enter", TRUE, FALSE)

\* The finger reaches the top of the viewport: rawDistance = overscrollStartY
DragToTop == OnTouchMove(0, NoElement, FALSE)

SpecDampen == InitDrag /\ [][DragToTop]_vars

----------------------------------------------------------------------------
(* Properties *)

\* state idle, direction none, offset 0, both flags false
FullyReset ==
    /\ state = "idle"
    /\ direction = "none"
    /\ overscrollOffset = 0
    /\ ~isAnimating
    /\ ~isCommitting

CommitFired == lastOp.op = "timer" /\ lastOp.timer.kind = "commit"

\* C1: a commit whose timer was still pending when a new onTouchStart (not
\* disabled) arrived is cancelled: when that timer fires, onNavigate is not
\* invoked.
C1_SupersededCommitDoesNotNavigate ==
    (CommitFired /\ lastOp.timer.stale) => lastOp.navs = <<>>

\* C2: a settle timer that fires after a later onTouchStart superseded it
\* leaves state, direction, overscrollOffset, isAnimating, isCommitting and
\* the direction lock as they were.
C2_StaleTimerChangesNothing ==
    [][(lastOp'.op = "timer" /\ lastOp'.timer.stale) => UNCHANGED ctl]_vars

\* C3: after onTouchEnd took the commit path, with no other event in between,
\* the settle timer fires; that step invokes onNavigate exactly once, with
\* currentIndex - 1 for prev and currentIndex + 1 for next (currentIndex as at
\* the release), and leaves the controller fully reset.
C3_CommitSettles ==
    /\ [][(/\ lastOp.op = "touchEnd"
           /\ lastOp.path = "commit"
           /\ lastOp'.op = "timer"
           /\ timers' = SubSeq(timers, 1, Len(timers) - 1))
          => (/\ lastOp'.navs = <<IF direction = "prev" THEN currentIndex - 1
                                                        ELSE currentIndex + 1>>
              /\ FullyReset')]_vars
    /\ (lastOp.op = "touchEnd" /\ lastOp.path = "commit")
          ~> (CommitFired /\ Len(lastOp.navs) = 1 /\ FullyReset)

C3_Witness ==
    /\ CommitFired
    /\ ~lastOp.timer.stale
    /\ lastOp.navs = <<currentIndex>>
    /\ timers = <<>>
    /\ FullyReset

\* C4: within one touch session (one onTouchStart, then moves and touch-ends)
\* onNavigate is invoked at most once.
C4_AtMostOneNavigationPerGesture ==
    ~(CommitFired /\ ~lastOp.timer.stale /\ lastOp.navs # <<>> /\ lastOp.again)

\* C5: onNavigate is never invoked inside onTouchStart, onTouchMove or
\* onTouchEnd; every invocation is made by a commit settle timer, in a step
\* of its own after the onTouchEnd that scheduled it.
C5_NavigationOnlyFromCommitTimer ==
    lastOp.navs # <<>> => CommitFired

C5_Witness ==
    /\ CommitFired
    /\ lastOp.navs # <<>>
    /\ state = "idle"

\* C6: onTouchEnd in overscrolling with a direction takes the commit path
\* exactly when overscrollOffset >= threshold: at the threshold it commits,
\* below it springs back.
C6_CommitIffAtThreshold ==
    (lastOp.op = "touchEnd" /\ lastOp.path \in {"commit", "spring"})
        => /\ (lastOp.path = "commit") <=> (lastOp.offset >= threshold)
           /\ timers[Len(timers)].kind = lastOp.path

C6_Witness ==
    /\ lastOp.op = "touchEnd"
    /\ lastOp.path = "commit"
    /\ lastOp.offset = threshold
    /\ isCommitting
    /\ timers[Len(timers)].kind = "commit"

C8_DirectionNeverFlips ==
    seenDirs # {"prev", "next"}

SpringFired == lastOp.op = "timer" /\ lastOp.timer.kind = "spring"

C10_DisabledHandlersAreNoOps ==
    [][(lastOp'.op \in {"touchStart", "touchMove", "touchEnd"} /\ lastOp'.dis)
        => (UNCHANGED <<ctl, touch, timers>> /\ lastOp'.navs = <<>>)]_vars

\* a move was ignored in the middle of an overscroll drag
C10_Witness ==
    /\ lastOp.op = "touchMove"
    /\ lastOp.dis
    /\ state = "overscrolling"
    /\ overscrollOffset > 0

TouchOps == {"touchStart", "touchMove", "touchEnd"}

\* C11: whenever disabled is true the controller's state is idle, also when
\* disabled turned true in the middle of a gesture or with a timer pending
\* (lastOp.dis is the flag a handler has just read).
C11_DisabledImpliesIdle ==
    (lastOp.op \in TouchOps /\ lastOp.dis) => state = "idle"

\* C12: right after an onTouchStart that is not disabled, also one arriving
\* during a commit or spring-back animation, state is idle, direction none,
\* isAnimating and isCommitting false and the direction lock cleared.
C12_TouchStartClears ==
    (lastOp.op = "touchStart" /\ ~lastOp.dis)
        => /\ state = "idle"
           /\ direction = "none"
           /\ ~isAnimating
           /\ ~isCommitting
           /\ ~directionLocked

\* a touch start arrived while a commit timer was pending
C12_Witness ==
    /\ lastOp.op = "touchStart"
    /\ lastOp.path = "cancel"
    /\ timers # <<>>
    /\ timers[1].kind = "commit"
    /\ timers[1].stale
    /\ state = "idle"
    /\ overscrollOffset = 0

\* C13: every step that changes currentIndex (goPrev, goNext, or the host
\* applying a committed navigation) leaves the controller fully reset,
\* whatever its state was.
C13_IndexChangeResets ==
    [][currentIndex' # currentIndex => FullyReset']_vars

\* the index changed by a button or key in the middle of an overscroll
C13_Witness ==
    /\ lastOp.op = "indexChange"
    /\ lastOp.was = "overscrolling"
    /\ FullyReset

\* C14: in every reachable state isCommitting implies isAnimating.
C14_CommittingImpliesAnimating ==
    isCommitting => isAnimating

\* a spring-back release found the commit flag of an earlier release still set
C14_Witness ==
    /\ lastOp.op = "touchEnd"
    /\ lastOp.path = "spring"
    /\ isCommitting
    /\ isAnimating

\* C15: in every reachable state with state idle, isAnimating and
\* isCommitting are both false.
C15_IdleHasNoAnimation ==
    state = "idle" => (~isAnimating /\ ~isCommitting)

\* a touch start cancelled a spring-back that was in flight
C15_Witness ==
    /\ lastOp.op = "touchStart"
    /\ lastOp.path = "cancel"
    /\ timers # <<>>
    /\ timers[1].kind = "spring"
    /\ state = "idle"
    /\ ~isAnimating

\* C16: at every moment at most one settle timer is pending.
C16_AtMostOnePendingTimer ==
    Len(timers) <= 1

\* C17: an onTouchMove with no touch session in progress (the first event
\* ever, or the one right after an onTouchEnd) leaves state, direction,
\* overscrollOffset and the animation flags unchanged.
C17_MoveWithoutSessionIsNoOp ==
    [][(/\ lastOp.op \in {"init", "touchEnd"}
        /\ lastOp'.op = "touchMove"
        /\ ~lastOp'.dis)
       => UNCHANGED <<state, direction, overscrollOffset, isAnimating, isCommitting>>]_vars

\* C18 as stated: in idle, an onTouchMove with |currentY - startY| <= 10
\* changes nothing; classification needs a displacement above 10px.
C18_DeadZoneUpToTen ==
    [][(state = "idle" /\ lastOp'.op = "touchMove")
        => \A y \in TouchYs :
              Abs(y - startY) <= 10
                 => \A el \in Containers :
                       OnTouchMove(y, el, FALSE) => UNCHANGED <<ctl, touch, timers>>]_vars

\* C18 amended: in idle, an onTouchMove with |currentY - startY| < 10 changes
\* nothing; classification happens once the displacement reaches 10px.
C18_DeadZoneBelowTen ==
    [][(state = "idle" /\ lastOp'.op = "touchMove")
        => \A y \in TouchYs :
              Abs(y - startY) < 10
                 => \A el \in Containers :
                       OnTouchMove(y, el, FALSE) => UNCHANGED <<ctl, touch, timers>>]_vars

\* a move inside the dead zone, at the top edge with a previous article: one
\* that left the dead zone downwards would have entered overscrolling
C18_Witness ==
    /\ lastOp.op = "touchMove"
    /\ lastOp.path = "deadzone"
    /\ ~lastOp.dis
    /\ state = "idle"
    /\ startY = 199
    /\ wasAtTop
    /\ hasPrev

\* C19: in every reachable state overscrollOffset is non-negative.
C19_OffsetNonNegative ==
    overscrollOffset >= 0

\* the shortest drag: one pixel past the point where overscrolling began
C19_Witness ==
    /\ lastOp.op = "touchMove"
    /\ lastOp.path = "drag"
    /\ overscrollOffset > 0
    /\ overscrollOffset < maxOverscroll * 100

\* a drag to the top of the viewport has applied dampen to overscrollStartY
Dragged == lastOp.op = "touchMove" /\ lastOp.path = "drag"

\* C20 as stated: for every drag distance r >= 0, dampen(r) is at least
\* dampen(r - 1) and at most dampen(r + 1), lies in [0, maxOverscroll),
\* strictly below maxOverscroll, and dampen(0) = 0.
C20_DampenBelowMax ==
    /\ dampen(0) = 0
    /\ Dragged
          => /\ overscrollOffset >= 0
             /\ overscrollOffset < maxOverscroll * One
             /\ dampen(overscrollStartY - 1) <= overscrollOffset
             /\ overscrollOffset <= dampen(overscrollStartY + 1)

\* C20 amended: for every drag distance r >= 0, dampen(r) is monotonically
\* non-decreasing in r, lies in [0, maxOverscroll] (the double result is
\* maxOverscroll itself once exp(-r / 150) is lost in the subtraction from 1),
\* and dampen(0) = 0.
C20_DampenUpToMax ==
    /\ dampen(0) = 0
    /\ Dragged
          => /\ overscrollOffset >= 0
             /\ overscrollOffset <= maxOverscroll * One
             /\ dampen(overscrollStartY - 1) <= overscrollOffset
             /\ overscrollOffset <= dampen(overscrollStartY + 1)

\* a drag long enough for the damped offset to be maxOverscroll itself
C20_Witness ==
    /\ Dragged
    /\ overscrollStartY > maxOverscroll
    /\ overscrollOffset = maxOverscroll * One

C22_PanelsInertUnlessActive ==
    /\ direction # "prev"
          => (topPreviewStyle.opacity = 0 /\ topPreviewStyle.translateY = -100 * One)
    /\ direction # "next"
          => (bottomPreviewStyle.opacity = 0 /\ bottomPreviewStyle.translateY = 100 * One)
    /\ \/ (topPreviewStyle.opacity = 0 /\ topPreviewStyle.translateY = -100 * One)
       \/ (bottomPreviewStyle.opacity = 0 /\ bottomPreviewStyle.translateY = 100 * One)

\* the bottom panel is showing in a drag towards next, the top one is parked
C22_Witness ==
    /\ direction = "next"
    /\ overscrollOffset > 0
    /\ bottomPreviewStyle.opacity > 0
    /\ bottomPreviewStyle.translateY < 100 * One
    /\ topPreviewStyle.opacity = 0
    /\ topPreviewStyle.translateY = -100 * One

\* C23: for every reachable offset, the commit value included, the top
\* panel's translateY lies in [-100%, 0%], the bottom panel's in [0%, 100%],
\* and the opacity in [0, 1], at 1 once the offset is 60 or more.
C23_PanelsNeverOvershoot ==
    /\ topPreviewStyle.translateY >= -100 * One
    /\ topPreviewStyle.translateY <= 0
    /\ bottomPreviewStyle.translateY >= 0
    /\ bottomPreviewStyle.translateY <= 100 * One
    /\ \A style \in {topPreviewStyle, bottomPreviewStyle} :
          /\ style.opacity >= 0
          /\ style.opacity <= One
    /\ (direction = "prev" /\ overscrollOffset >= 60 * One)
          => topPreviewStyle.opacity = One
    /\ (direction = "next" /\ overscrollOffset >= 60 * One)
          => bottomPreviewStyle.opacity = One

\* the top panel during a commit settle: the offset is past maxOverscroll and
\* the panel sits exactly on screen
C23_Witness ==
    /\ direction = "prev"
    /\ overscrollOffset > maxOverscroll * One
    /\ topPreviewStyle.translateY = 0
    /\ topPreviewStyle.opacity = One

\* C30: right after onTouchEnd took the commit path, isCommitting and
\* isAnimating are true, overscrollOffset is maxOverscroll + 50, and state and
\* direction are still overscrolling and the direction that was committed.
C30_CommitReleaseState ==
    (lastOp.op = "touchEnd" /\ lastOp.path = "commit")
        => /\ isCommitting
           /\ isAnimating
           /\ overscrollOffset = (maxOverscroll + 50) * One
           /\ state = "overscrolling"
           /\ direction \in {"prev", "next"}
           /\ timers[Len(timers)].navigateIndex
                 = (IF direction = "prev" THEN currentIndex - 1 ELSE currentIndex + 1)

\* a commit towards next waiting for its timer
C30_Witness ==
    /\ lastOp.op = "touchEnd"
    /\ lastOp.path = "commit"
    /\ direction = "next"
    /\ state = "overscrolling"
    /\ Len(timers) = 1
    /\ timers[1].navigateIndex = currentIndex + 1

\* C24: with the scroll container missing both boundary queries are true: an
\* onTouchStart snapshots at-top and at-bottom, and a move past the dead zone
\* (or, in scrolling, a move with the lock open) towards a side that has an
\* adjacent article enters overscrolling.
C24_MissingContainerIsPermissive ==
    [][/\ (lastOp'.op = "touchStart" /\ ~lastOp'.dis)
          => \A y \in TouchYs :
                OnTouchStart(y, NoElement, FALSE) => (wasAtTop' /\ wasAtBottom')
       /\ (lastOp'.op = "touchMove" /\ ~lastOp'.dis
             /\ \/ (state = "idle" /\ wasAtTop /\ wasAtBottom)
                \/ (state = "scrolling" /\ ~directionLocked))
          => \A y \in TouchYs :
                (/\ state = "idle" => Abs(y - startY) >= 10
                 /\ OnTouchMove(y, NoElement, FALSE))
                => /\ (y > startY /\ currentIndex > 0)
                         => (state' = "overscrolling" /\ direction' = "prev")
                   /\ (y < startY /\ currentIndex < articlesLen - 1)
                         => (state' = "overscrolling" /\ direction' = "next")]_vars

\* overscrolling entered with both edges snapshotted, as a missing container
\* reports them
C24_Witness ==
    /\ lastOp.op = "touchMove"
    /\ lastOp.path = "enter"
    /\ wasAtTop
    /\ wasAtBottom
    /\ state = "overscrolling"

\* C25: in scrolling, an onTouchMove upgrades to overscrolling exactly when the
\* lock is open, the boundary query made during the move is true on the side
\* of the cumulative displacement and the adjacent article exists; it then
\* sets direction and the lock and takes the current Y as reference; in every
\* other case state stays scrolling and nothing changes.
C25_ScrollingUpgrade ==
    [][(state = "scrolling" /\ lastOp'.op = "touchMove" /\ ~lastOp'.dis)
        => \A y \in TouchYs, el \in Containers :
              OnTouchMove(y, el, FALSE)
              => LET toPrev == /\ ~directionLocked
                               /\ y > startY
                               /\ isAtTop(el)
                               /\ currentIndex > 0
                     toNext == /\ ~directionLocked
                               /\ y < startY
                               /\ isAtBottom(el)
                               /\ currentIndex < articlesLen - 1
                 IN  IF toPrev \/ toNext
                     THEN /\ state' = "overscrolling"
                          /\ direction' = (IF toPrev THEN "prev" ELSE "next")
                          /\ directionLocked'
                          /\ overscrollStartY' = y
                          /\ UNCHANGED <<overscrollOffset, isAnimating, isCommitting>>
                     ELSE UNCHANGED <<ctl, touch, timers>>]_vars

\* an upgrade towards prev in a gesture that did not begin at the top edge
C25_Witness ==
    /\ lastOp.op = "touchMove"
    /\ lastOp.path = "enter"
    /\ direction = "prev"
    /\ ~wasAtTop
    /\ directionLocked
    /\ state = "overscrolling"

\* C26: in overscrolling, an onTouchMove with raw distance <= 0 from the
\* reference Y demotes the gesture (state scrolling, offset 0, direction
\* none); one with raw distance > 0 keeps state and direction and sets the
\* offset to dampen(raw distance).
C26_DemoteOrDrag ==
    [][(state = "overscrolling" /\ lastOp'.op = "touchMove" /\ ~lastOp'.dis)
        => \A y \in TouchYs, el \in Containers :
              OnTouchMove(y, el, FALSE)
              => LET raw == IF direction = "prev" THEN y - overscrollStartY
                                                  ELSE overscrollStartY - y
                 IN  IF raw <= 0
                     THEN /\ state' = "scrolling"
                          /\ overscrollOffset' = 0
                          /\ direction' = "none"
                     ELSE /\ state' = "overscrolling"
                          /\ direction' = direction
                          /\ overscrollOffset' = dampen(raw)
                          /\ overscrollOffset' > 0]_vars

\* a gesture demoted after a drag: the lock stays set
C26_Witness ==
    /\ lastOp.op = "touchMove"
    /\ lastOp.path = "demote"
    /\ state = "scrolling"
    /\ direction = "none"
    /\ overscrollOffset = 0
    /\ directionLocked

\* C28: from idle, a move past the dead zone enters overscrolling towards prev
\* exactly when the displacement is downward, the snapshot taken at
\* onTouchStart says at-top and a previous article exists; towards next with
\* upward, at-bottom snapshot and a next article; otherwise it enters
\* scrolling.  The container as it is during the move plays no part.
C28_IdleClassification ==
    [][(state = "idle" /\ lastOp'.op = "touchMove" /\ ~lastOp'.dis)
        => \A y \in TouchYs :
              Abs(y - startY) >= 10
              => \A el \in Containers :
                    OnTouchMove(y, el, FALSE)
                    => IF y > startY /\ wasAtTop /\ currentIndex > 0
                       THEN state' = "overscrolling" /\ direction' = "prev"
                       ELSE IF y < startY /\ wasAtBottom /\ currentIndex < articlesLen - 1
                       THEN state' = "overscrolling" /\ direction' = "next"
                       ELSE state' = "scrolling" /\ direction' = "none"]_vars

\* an upward first move on the last article, from the bottom edge, became
\* scrolling
C28_Witness ==
    /\ lastOp.op = "touchMove"
    /\ lastOp.path = "toScrolling"
    /\ state = "scrolling"
    /\ wasAtBottom
    /\ ~wasAtTop
    /\ articlesLen = 2
    /\ currentIndex = 1

\* C29: an onTouchMove that is not disabled calls preventDefault exactly when
\* the controller is overscrolling before the move or enters it in the move.
C29_PreventDefaultIffOverscrolling ==
    [][(lastOp'.op = "touchMove" /\ ~lastOp'.dis)
        => (lastOp'.prevented <=> (state = "overscrolling" \/ state' = "overscrolling"))]_vars

\* the move that demoted the gesture still suppressed the default
C29_Witness ==
    /\ lastOp.op = "touchMove"
    /\ lastOp.path = "demote"
    /\ lastOp.prevented
    /\ state = "scrolling"
    /\ seenDirs # {}

\* C27: a gesture that entered overscrolling and was demoted to scrolling does
\* not re-enter overscrolling, in either direction, before its release or the
\* next onTouchStart.
C27_NoReentryAfterDemote ==
    demoted => state # "overscrolling"

\* C31: an onTouchEnd, not disabled, that finds the controller in idle or
\* scrolling, or without a direction, leaves it fully reset at once, schedules
\* no timer and invokes no navigation.
C31_ReleaseWithoutGestureResets ==
    [][(/\ lastOp'.op = "touchEnd"
        /\ ~lastOp'.dis
        /\ (state \in {"idle", "scrolling"} \/ direction = "none"))
       => (/\ FullyReset'
           /\ timers' = timers
           /\ lastOp'.navs = <<>>)]_vars

\* a release with no overscroll to settle, in a session a touch began
C31_Witness ==
    /\ lastOp.op = "touchEnd"
    /\ lastOp.path = "reset"
    /\ ~lastOp.dis
    /\ timers = <<>>
    /\ startY # 0
    /\ FullyReset

\* state idle, direction none, offset 0, both flags false, no timer pending
Rest == FullyReset /\ timers = <<>>

\* C32: with every pending timer firing in the end, an onTouchEnd that is not
\* disabled and is followed by no touch or index-change event leads to the
\* rest state; the rest state is left only by a new touch event.
C32_SettlesToRest ==
    /\ (lastOp.op = "touchEnd" /\ ~lastOp.dis)
          ~> (Rest \/ lastOp.op \notin {"touchEnd", "timer"})
    /\ [][(Rest /\ ~Rest') => lastOp'.op \in {"touchStart", "touchMove"}]_vars

\* a commit timer and a spring-back timer of one touch session have both
\* fired and nothing is pending
C32_Witness ==
    /\ Rest
    /\ lastOp.op = "timer"
    /\ lastOp.timer.kind = "spring"
    /\ navigated

\* C33: in every reachable state direction is set exactly when state is
\* overscrolling.
C33_DirectionIffOverscrolling ==
    (direction # "none") <=> (state = "overscrolling")

\* a spring-back settle: the direction stays set while the timer is pending
C33_Witness ==
    /\ state = "overscrolling"
    /\ direction = "prev"
    /\ isAnimating
    /\ ~isCommitting
    /\ overscrollOffset = 0
    /\ timers # <<>>

\* C34: in every reachable state with state idle, overscrollOffset is 0, also
\* after an onTouchStart in the middle of an overscroll drag with no animation
\* in flight.
C34_IdleHasZeroOffset ==
    state = "idle" => overscrollOffset = 0

\* C35: for a fixed article list, every navigation callback carries a target
\* index within 0 .. articles.length - 1.
C35_NavigationTargetInRange ==
    \A k \in 1..Len(lastOp.navs) :
        /\ lastOp.navs[k] >= 0
        /\ lastOp.navs[k] <= articlesLen - 1

\* a commit towards next has just navigated to the last article
C35_Witness ==
    /\ CommitFired
    /\ articlesLen = 2
    /\ lastOp.navs = <<1>>
    /\ currentIndex = articlesLen - 1

\* C36: whenever the navigation callback is invoked, its target differs by
\* exactly 1 from currentIndex as it is at that moment, also when the index
\* changed between the commit release and the timer.
C36_NavigationTargetIsNeighbour ==
    [][\A k \in 1..Len(lastOp'.navs) :
          Abs(lastOp'.navs[k] - currentIndex) = 1]_vars

\* C37: in every reachable state with isAnimating true at least one settle
\* timer is pending.
C37_AnimatingHasTimer ==
    isAnimating => timers # <<>>

\* an animation in flight with two timers pending
C37_Witness ==
    /\ isAnimating
    /\ Len(timers) = 2
    /\ timers[1].kind = "spring"
    /\ timers[2].kind = "commit"

====
